---- MODULE Spec2Model ----
(***************************************************************************)
(* Model of vs/editor/contrib/clipboard/clipboard.ts: load-time capability *)
(* detection, registration of the cut / copy / paste MultiCommands and of  *)
(* the copy-with-syntax-highlighting editor action, and the two-priority   *)
(* dispatch of every command execution to document.execCommand.            *)
(***************************************************************************)
EXTENDS Integers, Sequences, FiniteSets, TLC

\* Number of command executions explored in one session.
MaxExecs == 3

\* Priorities of the two implementations added by registerExecCommandImpl.
FocusedEditorPriority == 10000
FallbackPriority == 0

\* The JavaScript value undefined.
Undefined == [undefined |-> TRUE]

BrowserCommands == {"cut", "copy", "paste"}

CopyWithSyntaxHighlightingId == "editor.action.clipboardCopyWithSyntaxHighlightingAction"

VARIABLES
    isNative,                \* platform.isNative
    isChrome,                \* browser.isChrome
    isEdge,                  \* browser.isEdge
    queryCommandSupported,   \* document.queryCommandSupported, per command
    CutAction,               \* exported constant: a MultiCommand or Undefined
    CopyAction,              \* exported constant: a MultiCommand or Undefined
    PasteAction,             \* exported constant: a MultiCommand or Undefined
    commandRegistry,         \* ids of the commands on which register() ran
    editorActions,           \* ids passed to registerEditorAction
    loadPc,                  \* position in the module's top-level code
    focus,                   \* "none" | "widget" | "text": focus of the code editor
    selection,               \* getSelection(): "null" (no model) | "empty" | "nonEmpty"
    emptySelectionClipboard, \* EditorOption.emptySelectionClipboard
    forceCopyWithSyntaxHighlighting, \* CopyOptions.forceCopyWithSyntaxHighlighting
    runPc,                   \* position inside ExecCommandCopyWithSyntaxHighlightingAction.run
    lastCmd,                 \* the command of the latest execution, "none" before any
    input,                   \* editor state and flag read when that execution started
    log,                     \* calls made by the latest execution, in order
    handledBy,               \* priority of the implementation that returned true, -1 if none
    highlightRuns,           \* TRUE once a run of the highlighting action went through execCommand
    nExec                    \* number of executions started

envVars == <<isNative, isChrome, isEdge, queryCommandSupported>>
regVars == <<CutAction, CopyAction, PasteAction, commandRegistry, editorActions>>
editorVars == <<focus, selection, emptySelectionClipboard>>
execVars == <<lastCmd, input, log, handledBy, highlightRuns, nExec>>
vars == <<envVars, regVars, loadPc, editorVars, forceCopyWithSyntaxHighlighting,
          runPc, execVars>>

----------------------------------------------------------------------------
\* Capability flags, computed once at load.

supportsCut == isNative \/ queryCommandSupported["cut"]

supportsCopy == isNative \/ queryCommandSupported["copy"]

\* Variant: the Edge exclusion is forgotten.
supportsCopyWithSyntaxHighlighting_noEdgeCheck == supportsCopy

supportsCopyWithSyntaxHighlighting == supportsCopy /\ ~isEdge

\* Variant: Chrome's answer to queryCommandSupported('paste') is trusted.
supportsPaste_trustChrome == isNative \/ queryCommandSupported["paste"]

supportsPaste == isNative \/ (~isChrome /\ queryCommandSupported["paste"])

----------------------------------------------------------------------------
\* Key codes and command options.

\* KeyMod.<mod> | KeyCode.<key>
KeyChord(mod, key) == [mod |-> mod, key |-> key]

\* Variant: the cut keybinding is bound in the browser as well.
CutActionOpts_alwaysBound ==
    [id |-> "editor.action.clipboardCutAction",
     precondition |-> Undefined,
     kbOpts |-> [kbExpr |-> "textInputFocus",
                 primary |-> KeyChord("CtrlCmd", "KEY_X"),
                 win |-> [primary |-> KeyChord("CtrlCmd", "KEY_X"),
                          secondary |-> <<KeyChord("Shift", "Delete")>>],
                 weight |-> "EditorContrib"],
     menuOpts |-> << [menuId |-> "MenubarEditMenu", group |-> "2_ccp",
                      title |-> "Cu&&t", order |-> 1],
                     [menuId |-> "EditorContext", group |-> "9_cutcopypaste",
                      title |-> "Cut", when |-> "writable", order |-> 1],
                     [menuId |-> "CommandPalette", group |-> "",
                      title |-> "Cut", order |-> 1] >>]

CutActionOpts ==
    [id |-> "editor.action.clipboardCutAction",
     precondition |-> Undefined,
     kbOpts |-> IF isNative
                THEN [kbExpr |-> "textInputFocus",
                      primary |-> KeyChord("CtrlCmd", "KEY_X"),
                      win |-> [primary |-> KeyChord("CtrlCmd", "KEY_X"),
                               secondary |-> <<KeyChord("Shift", "Delete")>>],
                      weight |-> "EditorContrib"]
                ELSE Undefined,
     menuOpts |-> << [menuId |-> "MenubarEditMenu", group |-> "2_ccp",
                      title |-> "Cu&&t", order |-> 1],
                     [menuId |-> "EditorContext", group |-> "9_cutcopypaste",
                      title |-> "Cut", when |-> "writable", order |-> 1],
                     [menuId |-> "CommandPalette", group |-> "",
                      title |-> "Cut", order |-> 1] >>]

CopyActionOpts ==
    [id |-> "editor.action.clipboardCopyAction",
     precondition |-> Undefined,
     kbOpts |-> IF isNative
                THEN [kbExpr |-> "textInputFocus",
                      primary |-> KeyChord("CtrlCmd", "KEY_C"),
                      win |-> [primary |-> KeyChord("CtrlCmd", "KEY_C"),
                               secondary |-> <<KeyChord("CtrlCmd", "Insert")>>],
                      weight |-> "EditorContrib"]
                ELSE Undefined,
     menuOpts |-> << [menuId |-> "MenubarEditMenu", group |-> "2_ccp",
                      title |-> "&&Copy", order |-> 2],
                     [menuId |-> "EditorContext", group |-> "9_cutcopypaste",
                      title |-> "Copy", order |-> 2],
                     [menuId |-> "CommandPalette", group |-> "",
                      title |-> "Copy", order |-> 1] >>]

PasteActionOpts ==
    [id |-> "editor.action.clipboardPasteAction",
     precondition |-> Undefined,
     kbOpts |-> IF isNative
                THEN [kbExpr |-> "textInputFocus",
                      primary |-> KeyChord("CtrlCmd", "KEY_V"),
                      win |-> [primary |-> KeyChord("CtrlCmd", "KEY_V"),
                               secondary |-> <<KeyChord("Shift", "Insert")>>],
                      linux |-> [primary |-> KeyChord("CtrlCmd", "KEY_V"),
                                 secondary |-> <<KeyChord("Shift", "Insert")>>],
                      weight |-> "EditorContrib"]
                ELSE Undefined,
     menuOpts |-> << [menuId |-> "MenubarEditMenu", group |-> "2_ccp",
                      title |-> "&&Paste", order |-> 3],
                     [menuId |-> "EditorContext", group |-> "9_cutcopypaste",
                      title |-> "Paste", when |-> "writable", order |-> 3],
                     [menuId |-> "CommandPalette", group |-> "",
                      title |-> "Paste", order |-> 1] >>]

----------------------------------------------------------------------------
\* MultiCommand (vs/editor/browser/editorExtensions).

\* new MultiCommand(opts): the options plus an empty list of implementations.
MultiCommand(opts) ==
    [id |-> opts.id, precondition |-> opts.precondition, kbOpts |-> opts.kbOpts,
     menuOpts |-> opts.menuOpts, implementations |-> <<>>]

\* Insert an implementation keeping the list sorted by descending priority
\* (stable: after the entries of equal or higher priority).
RECURSIVE InsertByPriority(_, _)
InsertByPriority(impls, entry) ==
    IF impls = <<>> THEN <<entry>>
    ELSE IF Head(impls).priority >= entry.priority
         THEN <<Head(impls)>> \o InsertByPriority(Tail(impls), entry)
         ELSE <<entry>> \o impls

\* target.addImplementation(priority, implementation)
addImplementation(target, priority, implementation) ==
    [target EXCEPT !.implementations =
        InsertByPriority(@, [priority |-> priority, impl |-> implementation])]

----------------------------------------------------------------------------
\* The calls an execution makes, recorded in order. flag is the value of
\* CopyOptions.forceCopyWithSyntaxHighlighting when the call is made.

Call(op, arg, by) ==
    [op |-> op, arg |-> arg, by |-> by, flag |-> forceCopyWithSyntaxHighlighting]

\* accessor.get(ICodeEditorService).getFocusedCodeEditor() returns an editor
focusedEditor == focus # "none"

\* focusedEditor.hasTextFocus()
hasTextFocus == focus = "text"

\* editor.hasModel(): getSelection() is null exactly for an editor without model
hasModel == selection # "null"

\* Variant: widget focus is taken for text focus.
FocusedEditorImplementation_anyFocus(browserCommand) ==
    IF focusedEditor
    THEN IF /\ browserCommand \in {"cut", "copy"}
            /\ selection # "null" /\ selection = "empty" /\ ~emptySelectionClipboard
         THEN [result |-> TRUE, calls |-> <<>>]
         ELSE [result |-> TRUE,
               calls |-> <<Call("execCommand", browserCommand, "focusedEditor")>>]
    ELSE [result |-> FALSE, calls |-> <<>>]

\* Variant: the empty-selection test is dropped.
FocusedEditorImplementation_noSelectionTest(browserCommand) ==
    IF focusedEditor /\ hasTextFocus
    THEN [result |-> TRUE,
          calls |-> <<Call("execCommand", browserCommand, "focusedEditor")>>]
    ELSE [result |-> FALSE, calls |-> <<>>]

\* Variant: the implementation executes the command but reports it unhandled.
FocusedEditorImplementation_fallsThrough(browserCommand) ==
    IF focusedEditor /\ hasTextFocus
    THEN IF /\ browserCommand \in {"cut", "copy"}
            /\ selection # "null" /\ selection = "empty" /\ ~emptySelectionClipboard
         THEN [result |-> TRUE, calls |-> <<>>]
         ELSE [result |-> FALSE,
               calls |-> <<Call("execCommand", browserCommand, "focusedEditor")>>]
    ELSE [result |-> FALSE, calls |-> <<>>]

\* Variant: the empty-selection test applies to paste too and takes a missing
\* selection for an empty one.
FocusedEditorImplementation_testsEveryCommand(browserCommand) ==
    IF focusedEditor /\ hasTextFocus
    THEN IF selection # "nonEmpty" /\ ~emptySelectionClipboard
         THEN [result |-> TRUE, calls |-> <<>>]
         ELSE [result |-> TRUE,
               calls |-> <<Call("execCommand", browserCommand, "focusedEditor")>>]
    ELSE [result |-> FALSE, calls |-> <<>>]

\* 1. handle case when focus is in editor (priority 10000).
FocusedEditorImplementation(browserCommand) ==
    IF focusedEditor /\ hasTextFocus
    THEN IF /\ browserCommand \in {"cut", "copy"}
            /\ selection # "null" /\ selection = "empty" /\ ~emptySelectionClipboard
         THEN [result |-> TRUE, calls |-> <<>>]
         ELSE [result |-> TRUE,
               calls |-> <<Call("execCommand", browserCommand, "focusedEditor")>>]
    ELSE [result |-> FALSE, calls |-> <<>>]

\* Variant: the fallback repeats the empty-selection test.
FallbackImplementation_testsSelection(browserCommand) ==
    IF /\ browserCommand \in {"cut", "copy"}
       /\ selection = "empty" /\ ~emptySelectionClipboard
    THEN [result |-> TRUE, calls |-> <<>>]
    ELSE [result |-> TRUE, calls |-> <<Call("execCommand", browserCommand, "fallback")>>]

\* 2. (default) handle case when focus is somewhere else (priority 0).
FallbackImplementation(browserCommand) ==
    [result |-> TRUE, calls |-> <<Call("execCommand", browserCommand, "fallback")>>]

registerExecCommandImpl(target, browserCommand) ==
    IF target = Undefined
    THEN target
    ELSE addImplementation(
             addImplementation(target, FocusedEditorPriority,
                 [kind |-> "focusedEditor", browserCommand |-> browserCommand]),
             FallbackPriority,
             [kind |-> "fallback", browserCommand |-> browserCommand])

\* Invoke one registered implementation.
CallImplementation(implementation) ==
    IF implementation.kind = "focusedEditor"
    THEN FocusedEditorImplementation(implementation.browserCommand)
    ELSE FallbackImplementation(implementation.browserCommand)

\* MultiCommand.runCommand: the implementations are tried in list order and the
\* first one that returns true ends the execution. Each invocation is recorded
\* with the calls it makes and the value it returns.
RECURSIVE runImplementations(_, _)
runImplementations(impls, calls) ==
    IF impls = <<>>
    THEN [handledBy |-> -1, calls |-> calls]
    ELSE LET entry == Head(impls)
             r == CallImplementation(entry.impl)
             done == calls
                     \o <<Call("implementation", entry.impl.browserCommand, entry.impl.kind)>>
                     \o r.calls
                     \o <<Call("return", IF r.result THEN "true" ELSE "false", entry.impl.kind)>>
         IN  IF r.result
             THEN [handledBy |-> entry.priority, calls |-> done]
             ELSE runImplementations(Tail(impls), done)

runCommand(target) == runImplementations(target.implementations, <<>>)

\* The exported constant that holds a browser command's MultiCommand.
Target(browserCommand) ==
    CASE browserCommand = "cut" -> CutAction
      [] browserCommand = "copy" -> CopyAction
      [] browserCommand = "paste" -> PasteAction

\* What an execution reads when it starts.
Snapshot ==
    [focus |-> focus, selection |-> selection,
     emptySelectionClipboard |-> emptySelectionClipboard,
     flag |-> forceCopyWithSyntaxHighlighting]

----------------------------------------------------------------------------
\* Initial state: a host environment, nothing loaded yet, an editor without
\* focus and without model, the option at its default.

Init ==
    /\ isNative \in BOOLEAN
    /\ isChrome \in BOOLEAN
    /\ isEdge \in BOOLEAN
    /\ queryCommandSupported \in [BrowserCommands -> BOOLEAN]
    /\ CutAction = Undefined
    /\ CopyAction = Undefined
    /\ PasteAction = Undefined
    /\ commandRegistry = {}
    /\ editorActions = {}
    /\ loadPc = "CutAction"
    /\ focus = "none"
    /\ selection = "null"
    /\ emptySelectionClipboard = TRUE
    /\ forceCopyWithSyntaxHighlighting = FALSE
    /\ runPc = "idle"
    /\ lastCmd = "none"
    /\ input = Snapshot
    /\ log = <<>>
    /\ handledBy = -1
    /\ highlightRuns = FALSE
    /\ nExec = 0

----------------------------------------------------------------------------
\* Module load: the top-level statements, in source order.

notLoading == <<editorVars, forceCopyWithSyntaxHighlighting, runPc, execVars, envVars>>

\* export const CutAction = supportsCut ? registerCommand(new MultiCommand(..)) : undefined
LoadCutAction ==
    /\ loadPc = "CutAction"
    /\ IF supportsCut
       THEN /\ CutAction' = MultiCommand(CutActionOpts)
            /\ commandRegistry' = commandRegistry \cup {CutActionOpts.id}
       ELSE /\ CutAction' = Undefined
            /\ UNCHANGED commandRegistry
    /\ loadPc' = "CopyAction"
    /\ UNCHANGED <<CopyAction, PasteAction, editorActions, notLoading>>

LoadCopyAction ==
    /\ loadPc = "CopyAction"
    /\ IF supportsCopy
       THEN /\ CopyAction' = MultiCommand(CopyActionOpts)
            /\ commandRegistry' = commandRegistry \cup {CopyActionOpts.id}
       ELSE /\ CopyAction' = Undefined
            /\ UNCHANGED commandRegistry
    /\ loadPc' = "PasteAction"
    /\ UNCHANGED <<CutAction, PasteAction, editorActions, notLoading>>

LoadPasteAction ==
    /\ loadPc = "PasteAction"
    /\ IF supportsPaste
       THEN /\ PasteAction' = MultiCommand(PasteActionOpts)
            /\ commandRegistry' = commandRegistry \cup {PasteActionOpts.id}
       ELSE /\ PasteAction' = Undefined
            /\ UNCHANGED commandRegistry
    /\ loadPc' = "registerCut"
    /\ UNCHANGED <<CutAction, CopyAction, editorActions, notLoading>>

\* registerExecCommandImpl(CutAction, 'cut');
LoadRegisterCut ==
    /\ loadPc = "registerCut"
    /\ CutAction' = registerExecCommandImpl(CutAction, "cut")
    /\ loadPc' = "registerCopy"
    /\ UNCHANGED <<CopyAction, PasteAction, commandRegistry, editorActions, notLoading>>

\* registerExecCommandImpl(CopyAction, 'copy');
LoadRegisterCopy ==
    /\ loadPc = "registerCopy"
    /\ CopyAction' = registerExecCommandImpl(CopyAction, "copy")
    /\ loadPc' = "registerPaste"
    /\ UNCHANGED <<CutAction, PasteAction, commandRegistry, editorActions, notLoading>>

\* registerExecCommandImpl(PasteAction, 'paste');
LoadRegisterPaste ==
    /\ loadPc = "registerPaste"
    /\ PasteAction' = registerExecCommandImpl(PasteAction, "paste")
    /\ loadPc' = "registerEditorAction"
    /\ UNCHANGED <<CutAction, CopyAction, commandRegistry, editorActions, notLoading>>

\* if (supportsCopyWithSyntaxHighlighting) { registerEditorAction(..) }
LoadRegisterEditorAction ==
    /\ loadPc = "registerEditorAction"
    /\ editorActions' = IF supportsCopyWithSyntaxHighlighting
                        THEN editorActions \cup {CopyWithSyntaxHighlightingId}
                        ELSE editorActions
    /\ loadPc' = "ready"
    /\ UNCHANGED <<CutAction, CopyAction, PasteAction, commandRegistry, notLoading>>

----------------------------------------------------------------------------
\* The user and the workbench change the editor between command executions.

idle == loadPc = "ready" /\ runPc = "idle"

notEditor == <<envVars, regVars, loadPc, forceCopyWithSyntaxHighlighting, runPc, execVars>>

\* Focus moves into the editor's text area, onto one of its widgets, or away.
SetFocus(f) ==
    /\ idle
    /\ f # focus
    /\ focus' = f
    /\ UNCHANGED <<selection, emptySelectionClipboard, notEditor>>

\* The editor gets or loses its model, or the cursor selection changes.
SetSelection(s) ==
    /\ idle
    /\ s # selection
    /\ selection' = s
    /\ UNCHANGED <<focus, emptySelectionClipboard, notEditor>>

\* editor.emptySelectionClipboard is reconfigured.
SetEmptySelectionClipboard(b) ==
    /\ idle
    /\ b # emptySelectionClipboard
    /\ emptySelectionClipboard' = b
    /\ UNCHANGED <<focus, selection, notEditor>>

----------------------------------------------------------------------------
\* Execution of a registered cut / copy / paste command.

ExecuteCommand(browserCommand) ==
    /\ idle
    /\ nExec < MaxExecs
    /\ Target(browserCommand) # Undefined
    /\ LET r == runCommand(Target(browserCommand))
       IN  /\ log' = r.calls
           /\ handledBy' = r.handledBy
    /\ lastCmd' = browserCommand
    /\ input' = Snapshot
    /\ nExec' = nExec + 1
    /\ UNCHANGED <<envVars, regVars, loadPc, editorVars,
                   forceCopyWithSyntaxHighlighting, runPc, highlightRuns>>

----------------------------------------------------------------------------
\* ExecCommandCopyWithSyntaxHighlightingAction.run, statement by statement.
\* Nothing else runs between its statements (see idle).

notRun == <<envVars, regVars, loadPc>>

\* Variant: the flag is raised before the early returns.
run_flagFirst ==
    /\ idle
    /\ nExec < MaxExecs
    /\ CopyWithSyntaxHighlightingId \in editorActions
    /\ lastCmd' = "copyWithSyntaxHighlighting"
    /\ input' = Snapshot
    /\ nExec' = nExec + 1
    /\ handledBy' = -1
    /\ forceCopyWithSyntaxHighlighting' = TRUE
    /\ IF ~hasModel \/ (~emptySelectionClipboard /\ selection = "empty")
       THEN /\ log' = <<>>
            /\ UNCHANGED runPc
       ELSE /\ log' = <<[op |-> "setFlag", arg |-> "true", by |-> "run", flag |-> TRUE]>>
            /\ runPc' = "focus"
    /\ UNCHANGED <<notRun, editorVars, highlightRuns>>

\* Entry: the two early returns, else CopyOptions.forceCopyWithSyntaxHighlighting = true
run ==
    /\ idle
    /\ nExec < MaxExecs
    /\ CopyWithSyntaxHighlightingId \in editorActions
    /\ lastCmd' = "copyWithSyntaxHighlighting"
    /\ input' = Snapshot
    /\ nExec' = nExec + 1
    /\ handledBy' = -1
    /\ IF ~hasModel
       THEN /\ log' = <<>>
            /\ UNCHANGED <<forceCopyWithSyntaxHighlighting, runPc>>
       ELSE IF ~emptySelectionClipboard /\ selection = "empty"
       THEN /\ log' = <<>>
            /\ UNCHANGED <<forceCopyWithSyntaxHighlighting, runPc>>
       ELSE /\ forceCopyWithSyntaxHighlighting' = TRUE
            /\ log' = <<[op |-> "setFlag", arg |-> "true", by |-> "run", flag |-> TRUE]>>
            /\ runPc' = "focus"
    /\ UNCHANGED <<notRun, editorVars, highlightRuns>>

\* editor.focus();
runFocus ==
    /\ runPc = "focus"
    /\ focus' = "text"
    /\ log' = Append(log, Call("focus", "editor", "run"))
    /\ runPc' = "execCommand"
    /\ UNCHANGED <<notRun, selection, emptySelectionClipboard,
                   forceCopyWithSyntaxHighlighting,
                   lastCmd, input, handledBy, highlightRuns, nExec>>

\* document.execCommand('copy');
runExecCommand ==
    /\ runPc = "execCommand"
    /\ log' = Append(log, Call("execCommand", "copy", "run"))
    /\ highlightRuns' = TRUE
    /\ runPc' = "clearFlag"
    /\ UNCHANGED <<notRun, editorVars, forceCopyWithSyntaxHighlighting,
                   lastCmd, input, handledBy, nExec>>

\* Variant: the flag is not cleared.
runClearFlag_forgotten ==
    /\ runPc = "clearFlag"
    /\ log' = log
    /\ runPc' = "idle"
    /\ UNCHANGED <<notRun, editorVars, forceCopyWithSyntaxHighlighting,
                   lastCmd, input, handledBy, highlightRuns, nExec>>

\* CopyOptions.forceCopyWithSyntaxHighlighting = false;
runClearFlag ==
    /\ runPc = "clearFlag"
    /\ forceCopyWithSyntaxHighlighting' = FALSE
    /\ log' = Append(log, [op |-> "setFlag", arg |-> "false", by |-> "run", flag |-> FALSE])
    /\ runPc' = "idle"
    /\ UNCHANGED <<notRun, editorVars, lastCmd, input, handledBy, highlightRuns, nExec>>

----------------------------------------------------------------------------

Next ==
    \/ LoadCutAction
    \/ LoadCopyAction
    \/ LoadPasteAction
    \/ LoadRegisterCut
    \/ LoadRegisterCopy
    \/ LoadRegisterPaste
    \/ LoadRegisterEditorAction
    \/ \E f \in {"none", "widget", "text"} : SetFocus(f)
    \/ \E s \in {"null", "empty", "nonEmpty"} : SetSelection(s)
    \/ \E b \in BOOLEAN : SetEmptySelectionClipboard(b)
    \/ \E c \in BrowserCommands : ExecuteCommand(c)
    \/ run
    \/ runFocus
    \/ runExecCommand
    \/ runClearFlag

Spec == Init /\ [][Next]_vars

----------------------------------------------------------------------------
\* Properties.

\* The document.execCommand calls of a log, in order.
ExecCalls(l) == SelectSeq(l, LAMBDA e : e.op = "execCommand")

\* A call as the latest execution must have recorded it.
Made(op, arg, by) == [op |-> op, arg |-> arg, by |-> by, flag |-> input.flag]

\* The log of an execution in which the editor-focused implementation calls
\* document.execCommand and handles the command.
ByFocusedEditor(c) ==
    << Made("implementation", c, "focusedEditor"),
       Made("execCommand", c, "focusedEditor"),
       Made("return", "true", "focusedEditor") >>

\* The log of an execution in which the editor-focused implementation handles
\* the command without calling document.execCommand.
Suppressed(c) ==
    << Made("implementation", c, "focusedEditor"),
       Made("return", "true", "focusedEditor") >>

\* The log of an execution in which the editor-focused implementation declines
\* and the fallback calls document.execCommand.
ByFallback(c) ==
    << Made("implementation", c, "focusedEditor"),
       Made("return", "false", "focusedEditor"),
       Made("implementation", c, "fallback"),
       Made("execCommand", c, "fallback"),
       Made("return", "true", "fallback") >>

\* The execution started with text focus and, for cut/copy, with a selection
\* that is not an empty one or with emptySelectionClipboard enabled.
EditorCase ==
    /\ input.focus = "text"
    /\ lastCmd \in {"cut", "copy"} =>
           (input.selection # "empty" \/ input.emptySelectionClipboard)

\* The execution started with text focus, for cut or copy, with an empty
\* selection and emptySelectionClipboard off.
SuppressedCase ==
    /\ input.focus = "text"
    /\ lastCmd \in {"cut", "copy"}
    /\ input.selection = "empty"
    /\ ~input.emptySelectionClipboard

\* C1 as stated: in the editor case the editor-focused implementation invokes
\* document.execCommand with the command's name; in every other case the
\* fallback implementation invokes it.
C1_AsStated ==
    lastCmd \in BrowserCommands =>
        IF EditorCase
        THEN ExecCalls(log) = <<Made("execCommand", lastCmd, "focusedEditor")>>
        ELSE ExecCalls(log) = <<Made("execCommand", lastCmd, "fallback")>>

\* C1 amended: in the editor case the editor-focused implementation invokes
\* document.execCommand with the command's name; with text focus, cut or copy,
\* an empty selection and emptySelectionClipboard off, nobody invokes it; in
\* every other case (no focused editor, or no text focus) the fallback does.
C1_Dispatch ==
    lastCmd \in BrowserCommands =>
        IF EditorCase
        THEN ExecCalls(log) = <<Made("execCommand", lastCmd, "focusedEditor")>>
        ELSE IF SuppressedCase
        THEN ExecCalls(log) = <<>>
        ELSE ExecCalls(log) = <<Made("execCommand", lastCmd, "fallback")>>

C1_Witness ==
    /\ lastCmd = "cut"
    /\ SuppressedCase
    /\ ExecCalls(log) = <<>>

\* C2: CopyOptions.forceCopyWithSyntaxHighlighting is true exactly between the
\* first and the last statement of a run of the highlighting action, hence false
\* whenever no run is in progress; the execCommand call of that run is made with
\* the flag true, and every execCommand call of cut, copy and paste with it false.
C2_FlagScope ==
    /\ runPc = "idle" => ~forceCopyWithSyntaxHighlighting
    /\ forceCopyWithSyntaxHighlighting <=> runPc \in {"focus", "execCommand", "clearFlag"}
    /\ \A i \in 1..Len(log) :
           log[i].op = "execCommand" => (log[i].flag <=> log[i].by = "run")

C2_Witness ==
    /\ highlightRuns
    /\ lastCmd = "copy"
    /\ Len(ExecCalls(log)) = 1
    /\ ~forceCopyWithSyntaxHighlighting

\* The id under which a browser command's MultiCommand registers.
CommandId(c) ==
    CASE c = "cut" -> "editor.action.clipboardCutAction"
      [] c = "copy" -> "editor.action.clipboardCopyAction"
      [] c = "paste" -> "editor.action.clipboardPasteAction"

\* The capability of the host, in the words of the claim.
HostSupports(c) ==
    CASE c = "cut" -> isNative \/ queryCommandSupported["cut"]
      [] c = "copy" -> isNative \/ queryCommandSupported["copy"]
      [] c = "paste" -> isNative \/ (~isChrome /\ queryCommandSupported["paste"])

\* The command exists, is registered and has its two implementations.
Present(c) ==
    /\ Target(c) # Undefined
    /\ Target(c).id = CommandId(c)
    /\ CommandId(c) \in commandRegistry
    /\ Len(Target(c).implementations) = 2
    /\ Target(c).implementations[1] =
           [priority |-> 10000, impl |-> [kind |-> "focusedEditor", browserCommand |-> c]]
    /\ Target(c).implementations[2] =
           [priority |-> 0, impl |-> [kind |-> "fallback", browserCommand |-> c]]

\* The command is undefined and nothing is registered for it.
Absent(c) ==
    /\ Target(c) = Undefined
    /\ CommandId(c) \notin commandRegistry

\* C3: once the module is loaded, each of cut, copy and paste is present if the
\* host supports it and absent if not; a command the host does not support is
\* absent at every point of the load, after registerExecCommandImpl too.
C3_RegisteredIffSupported ==
    /\ loadPc = "ready" =>
           \A c \in BrowserCommands : IF HostSupports(c) THEN Present(c) ELSE Absent(c)
    /\ \A c \in BrowserCommands : ~HostSupports(c) => Absent(c)
    /\ \A c \in BrowserCommands : Target(c) # Undefined => HostSupports(c)

C3_Witness ==
    /\ loadPc = "ready"
    /\ ~isNative /\ isChrome /\ queryCommandSupported["paste"]
    /\ Absent("paste")
    /\ Present("copy")
    /\ ~queryCommandSupported["cut"] /\ Absent("cut")

\* The key of a browser command's primary keybinding.
PrimaryKey(c) ==
    CASE c = "cut" -> "KEY_X"
      [] c = "copy" -> "KEY_C"
      [] c = "paste" -> "KEY_V"

\* The secondary keybinding of a browser command on Windows.
WinSecondary(c) ==
    CASE c = "cut" -> [mod |-> "Shift", key |-> "Delete"]
      [] c = "copy" -> [mod |-> "CtrlCmd", key |-> "Insert"]
      [] c = "paste" -> [mod |-> "Shift", key |-> "Insert"]

\* C4: a registered cut / copy / paste command has keybinding options exactly
\* when the host is native, and then they are Ctrl/Cmd+X, +C, +V under
\* textInputFocus with the Windows secondary binding (and the Linux one for
\* paste only); in every host the command has its three menu entries.
C4_KeybindingsIffNative ==
    \A c \in BrowserCommands :
        Target(c) # Undefined =>
            /\ (Target(c).kbOpts # Undefined) <=> isNative
            /\ isNative =>
                   /\ Target(c).kbOpts.kbExpr = "textInputFocus"
                   /\ Target(c).kbOpts.primary = [mod |-> "CtrlCmd", key |-> PrimaryKey(c)]
                   /\ Target(c).kbOpts.win.secondary = <<WinSecondary(c)>>
                   /\ ("linux" \in DOMAIN Target(c).kbOpts) <=> (c = "paste")
                   /\ c = "paste" =>
                          Target(c).kbOpts.linux.secondary = <<WinSecondary(c)>>
            /\ Len(Target(c).menuOpts) = 3
            /\ [i \in 1..3 |-> Target(c).menuOpts[i].menuId] =
                   <<"MenubarEditMenu", "EditorContext", "CommandPalette">>

C4_Witness ==
    /\ loadPc = "ready"
    /\ ~isNative
    /\ \A c \in BrowserCommands :
           /\ Target(c) # Undefined
           /\ Target(c).kbOpts = Undefined
           /\ Len(Target(c).menuOpts) = 3

\* C5: a cut or copy executed with text focus, an empty selection and
\* emptySelectionClipboard off makes no document.execCommand call: the
\* editor-focused implementation returns true at once and the fallback is not run.
C5_EmptySelectionSuppressed ==
    (lastCmd \in BrowserCommands /\ SuppressedCase) =>
        /\ log = Suppressed(lastCmd)
        /\ handledBy = 10000

C5_Witness ==
    /\ lastCmd = "copy"
    /\ SuppressedCase
    /\ handledBy = 10000
    /\ Len(log) = 2

C7_HighlightingIffCopyAndNotEdge ==
    /\ loadPc = "ready" =>
           (CopyWithSyntaxHighlightingId \in editorActions
               <=> ((isNative \/ queryCommandSupported["copy"]) /\ ~isEdge))
    /\ CopyWithSyntaxHighlightingId \in editorActions =>
           (CopyAction # Undefined /\ ~isEdge)

C7_Witness ==
    /\ loadPc = "ready"
    /\ isEdge
    /\ Present("copy")
    /\ CopyWithSyntaxHighlightingId \notin editorActions

\* C8: every execution of cut, copy or paste is handled; the editor-focused
\* implementation is invoked first, the fallback only after it returned false,
\* the fallback returns true, and the execution makes at most one
\* document.execCommand call.
C8_HandledAtMostOneCall ==
    lastCmd \in BrowserCommands =>
        /\ handledBy \in {10000, 0}
        /\ Len(ExecCalls(log)) <= 1
        /\ log[1] = Made("implementation", lastCmd, "focusedEditor")
        /\ log[Len(log)].op = "return" /\ log[Len(log)].arg = "true"
        /\ \A i \in 1..Len(log) :
               (log[i].op = "implementation" /\ log[i].by = "fallback") =>
                   /\ i > 1
                   /\ log[i - 1] = Made("return", "false", "focusedEditor")
                   /\ log[Len(log)] = Made("return", "true", "fallback")
        /\ \A i \in 1..Len(log) :
               (log[i].op = "return" /\ log[i].by = "fallback") => log[i].arg = "true"

C8_Witness ==
    /\ lastCmd = "paste"
    /\ input.focus = "none"
    /\ handledBy = 0
    /\ Len(ExecCalls(log)) = 1
    /\ Len(log) = 5

\* The calls of a run of the highlighting action that passes both tests.
FullRun ==
    << [op |-> "setFlag", arg |-> "true", by |-> "run", flag |-> TRUE],
       [op |-> "focus", arg |-> "editor", by |-> "run", flag |-> TRUE],
       [op |-> "execCommand", arg |-> "copy", by |-> "run", flag |-> TRUE],
       [op |-> "setFlag", arg |-> "false", by |-> "run", flag |-> FALSE] >>

\* The number of statements of FullRun executed at each position of run.
RunProgress ==
    CASE runPc = "focus" -> 1
      [] runPc = "execCommand" -> 2
      [] runPc = "clearFlag" -> 3
      [] runPc = "idle" -> 4

\* The run started on an editor without model, or with an empty selection and
\* emptySelectionClipboard off.
RunSkips(sel, esc) == sel = "null" \/ (~esc /\ sel = "empty")

C9_Calls ==
    lastCmd = "copyWithSyntaxHighlighting" =>
        IF RunSkips(input.selection, input.emptySelectionClipboard)
        THEN /\ log = <<>>
             /\ runPc = "idle"
             /\ forceCopyWithSyntaxHighlighting = input.flag
        ELSE log = SubSeq(FullRun, 1, RunProgress)

C9_Step ==
    (nExec' # nExec /\ lastCmd' = "copyWithSyntaxHighlighting"
        /\ RunSkips(selection, emptySelectionClipboard)) =>
            /\ log' = <<>>
            /\ UNCHANGED <<forceCopyWithSyntaxHighlighting, editorVars, runPc,
                           highlightRuns, regVars, envVars, loadPc>>

\* C9: a run of the highlighting action on an editor without model, or with an
\* empty selection and emptySelectionClipboard off, writes nothing and calls
\* nothing; any other run sets the flag, focuses the editor, calls
\* document.execCommand('copy') and clears the flag, in that order.
C9_RunFrameAndOrder == []C9_Calls /\ [][C9_Step]_vars

C9_Witness ==
    /\ lastCmd = "copyWithSyntaxHighlighting"
    /\ runPc = "idle"
    /\ log = FullRun
    /\ input.focus = "none"
    /\ focus = "text"

\* C10: paste executed with text focus makes exactly one
\* document.execCommand('paste') call, from the editor-focused implementation,
\* which returns true, whatever the selection and emptySelectionClipboard are;
\* so do cut and copy with text focus on an editor that reports no selection.
C10_PasteNeverSuppressed ==
    /\ (lastCmd = "paste" /\ input.focus = "text") =>
           (log = ByFocusedEditor("paste") /\ handledBy = 10000)
    /\ (lastCmd \in {"cut", "copy"} /\ input.focus = "text" /\ input.selection = "null") =>
           (log = ByFocusedEditor(lastCmd) /\ handledBy = 10000)

C10_Witness ==
    /\ lastCmd = "paste"
    /\ input.focus = "text"
    /\ input.selection = "empty"
    /\ ~input.emptySelectionClipboard
    /\ log = ByFocusedEditor("paste")

====
